---- MODULE Spec2Model ----
(***************************************************************************)
(* Model of colors/color.py: the class Color, its converters between hex   *)
(* strings, RGB triples and HSL triples, and its three channel shifts.     *)
(*                                                                         *)
(* Python floats are IEEE-754 binary64 values and every float operation of *)
(* the source is correctly rounded (round to nearest, ties to even).  The  *)
(* module models them bit for bit: a float is sgn * man * 2^exp with man a *)
(* 53-bit natural number held as a sequence of 14-bit limbs.               *)
(*                                                                         *)
(* The arithmetic is written as functions, F[x, y], the methods of the     *)
(* class as operators, f(x).                                               *)
(***************************************************************************)
EXTENDS Integers, Sequences, FiniteSets, TLC

----------------------------------------------------------------------------
(* Natural numbers of any size: little-endian sequences of limbs, no zero  *)
(* limb at the high end, <<>> for 0.                                        *)

LimbBits == 14
LimbBase == 2^LimbBits

Limbs == Seq(Nat)

BNorm[a \in Limbs] ==
  IF Len(a) = 0 THEN <<>>
  ELSE IF a[Len(a)] = 0 THEN BNorm[SubSeq(a, 1, Len(a) - 1)] ELSE a

BLimb(a, i) == IF i >= 1 /\ i <= Len(a) THEN a[i] ELSE 0

BFromInt[n \in Nat] ==
  IF n = 0 THEN <<>> ELSE <<n % LimbBase>> \o BFromInt[n \div LimbBase]

BToInt[a \in Limbs] == IF a = <<>> THEN 0 ELSE a[1] + LimbBase * BToInt[Tail(a)]

BCmpAt[a \in Limbs, b \in Limbs, i \in Nat] ==
  IF i = 0 THEN 0
  ELSE IF a[i] > b[i] THEN 1
  ELSE IF a[i] < b[i] THEN -1
  ELSE BCmpAt[a, b, i - 1]

\* -1, 0, 1 as a < b, a = b, a > b
BCmp[a \in Limbs, b \in Limbs] ==
  IF Len(a) > Len(b) THEN 1
  ELSE IF Len(a) < Len(b) THEN -1
  ELSE BCmpAt[a, b, Len(a)]

\* the limbs i and above of a + b, c the carry into limb i
BAddAt[a \in Limbs, b \in Limbs, i \in Nat, c \in Nat] ==
  IF i > Len(a) /\ i > Len(b) THEN (IF c = 0 THEN <<>> ELSE <<c>>)
  ELSE <<(BLimb(a, i) + BLimb(b, i) + c) % LimbBase>>
         \o BAddAt[a, b, i + 1, (BLimb(a, i) + BLimb(b, i) + c) \div LimbBase]

BAdd[a \in Limbs, b \in Limbs] == BAddAt[a, b, 1, 0]

\* the limbs i and above of a - b, br the borrow from limb i
BSubAt[a \in Limbs, b \in Limbs, i \in Nat, br \in Nat] ==
  IF i > Len(a) THEN <<>>
  ELSE <<(a[i] - BLimb(b, i) - br) % LimbBase>>
         \o BSubAt[a, b, i + 1, IF a[i] - BLimb(b, i) - br < 0 THEN 1 ELSE 0]

\* a - b for a >= b
BSub[a \in Limbs, b \in Limbs] == BNorm[BSubAt[a, b, 1, 0]]

BMulSmallAt[a \in Limbs, k \in Nat, i \in Nat, c \in Nat] ==
  IF i > Len(a) THEN BFromInt[c]
  ELSE <<(a[i] * k + c) % LimbBase>>
         \o BMulSmallAt[a, k, i + 1, (a[i] * k + c) \div LimbBase]

\* a * k for 0 <= k < 2^16
BMulSmall[a \in Limbs, k \in Nat] == BNorm[BMulSmallAt[a, k, 1, 0]]

BShlLimbs(a, n) == IF a = <<>> THEN <<>> ELSE [i \in 1..n |-> 0] \o a

\* a * 2^n
BShl[a \in Limbs, n \in Nat] ==
  BShlLimbs(BMulSmall[a, 2^(n % LimbBits)], n \div LimbBits)

BShrLimbs(a, n) == IF n >= Len(a) THEN <<>> ELSE SubSeq(a, n + 1, Len(a))

\* floor(a / 2^r) for 0 <= r < LimbBits
BShrBits[a \in Limbs, r \in Nat] ==
  BNorm[[i \in 1..Len(a) |->
           (a[i] \div 2^r) + (BLimb(a, i + 1) % 2^r) * 2^(LimbBits - r)]]

\* floor(a / 2^n)
BShr[a \in Limbs, n \in Nat] == BShrBits[BShrLimbs(a, n \div LimbBits), n % LimbBits]

\* a mod 2^n
BLow[a \in Limbs, n \in Nat] ==
  BNorm[[i \in 1..Len(a) |->
           IF i <= n \div LimbBits THEN a[i]
           ELSE IF i = (n \div LimbBits) + 1 THEN a[i] % 2^(n % LimbBits)
           ELSE 0]]

\* bit k of a, bit 0 the lowest
BBit(a, k) == (BLimb(a, (k \div LimbBits) + 1) \div 2^(k % LimbBits)) % 2 = 1

\* a times the limbs i and above of b, those counted from limb 1
BMulAt[a \in Limbs, b \in Limbs, i \in Nat] ==
  IF i > Len(b) THEN <<>>
  ELSE BAdd[BMulSmall[a, b[i]], BShlLimbs(BMulAt[a, b, i + 1], 1)]

BMul[a \in Limbs, b \in Limbs] == BMulAt[a, b, 1]

\* for 0 <= n < LimbBase
IntBitLen(n) == Cardinality({k \in 0..(LimbBits - 1) : 2^k <= n})

BBitLen[a \in Limbs] ==
  IF a = <<>> THEN 0 ELSE LimbBits * (Len(a) - 1) + IntBitLen(a[Len(a)])

BDigitFix[q \in Nat, rem \in Limbs, d \in Limbs] ==
  IF BCmp[rem, d] >= 0 THEN BDigitFix[q + 1, BSub[rem, d], d] ELSE <<q, rem>>

BDigitTry[r \in Limbs, d \in Limbs, q0 \in Nat] ==
  BDigitFix[q0, BSub[r, BMulSmall[d, q0]], d]

BDigitAt[r \in Limbs, d \in Limbs, s \in Nat] ==
  BDigitTry[r, d, IF s = 0 THEN BToInt[r] \div BToInt[d]
                  ELSE BToInt[BShr[r, s]] \div (BToInt[BShr[d, s]] + 1)]

\* <<floor(r / d), r mod d>> for r < d * LimbBase: the quotient is one limb.
\* It is estimated from the 16 leading bits of d, from below, and then
\* corrected.
BDigit[r \in Limbs, d \in Limbs] ==
  BDigitAt[r, d, IF BBitLen[d] > 16 THEN BBitLen[d] - 16 ELSE 0]

BDivPut[q \in Limbs, dg \in Nat \X Limbs] == <<<<dg[1]>> \o q, dg[2]>>

\* one step of the long division: qr is <<quotient, remainder>> of the
\* limbs above, limb the next limb of the dividend
BDivStep[limb \in Nat, d \in Limbs, qr \in Limbs \X Limbs] ==
  BDivPut[qr[1], BDigit[BNorm[<<limb>> \o qr[2]], d]]

\* <<quotient, remainder>> of the limbs i and above of n divided by d; the
\* Len(d) - 1 highest limbs of n are below d
BDivAt[n \in Limbs, d \in Limbs, i \in Nat] ==
  IF i > Len(n) - Len(d) + 1 THEN <<<<>>, BNorm[SubSeq(n, i, Len(n))]>>
  ELSE BDivStep[n[i], d, BDivAt[n, d, i + 1]]

BDivOut[qr \in Limbs \X Limbs] == <<BNorm[qr[1]], qr[2]>>

\* <<floor(n / d), n mod d>> for d > 0
BDivMod[n \in Limbs, d \in Limbs] == BDivOut[BDivAt[n, d, 1]]

----------------------------------------------------------------------------
(* IEEE-754 binary64, the Python float.  Zero has man = <<>>; the sign of  *)
(* zero is not kept: no operation of the source observes it.  Every other  *)
(* float has 2^52 <= man < 2^53.  All values of the program lie far from   *)
(* the subnormal and the overflow range, so exp is unbounded here.         *)

MantBits == 53

Float == [sgn : {0, 1}, man : Limbs, exp : Int]

FZero == [sgn |-> 0, man |-> <<>>, exp |-> 0]

\* round to nearest, ties to even, when the d low bits of n go: the highest
\* of them is set, and so is a lower one, or the sticky bit, or bit d
FRoundUp[n \in Limbs, d \in Nat, sticky \in BOOLEAN] ==
  BBit(n, d - 1) /\ (sticky \/ BLow[n, d - 1] # <<>> \/ BBit(n, d))

\* rounding up may carry into a 54th bit
FCarry[sgn \in {0, 1}, man \in Limbs, e \in Int] ==
  IF BBitLen[man] > MantBits
  THEN [sgn |-> sgn, man |-> BShr[man, 1], exp |-> e + 1]
  ELSE [sgn |-> sgn, man |-> man, exp |-> e]

FRoundAt[sgn \in {0, 1}, n \in Limbs, e \in Int, sticky \in BOOLEAN, d \in Int] ==
  IF d <= 0 THEN [sgn |-> sgn, man |-> BShl[n, -d], exp |-> e + d]
  ELSE FCarry[sgn,
              IF FRoundUp[n, d, sticky] THEN BAdd[BShr[n, d], <<1>>]
              ELSE BShr[n, d],
              e + d]

\* The float nearest to (n + f) * 2^e, ties to even, where 0 <= f < 1 and
\* f > 0 iff sticky; n > 0, and n has more than MantBits bits when sticky.
FRound[sgn \in {0, 1}, n \in Limbs, e \in Int, sticky \in BOOLEAN] ==
  FRoundAt[sgn, n, e, sticky, BBitLen[n] - MantBits]

FMake[sgn \in {0, 1}, n \in Limbs, e \in Int, sticky \in BOOLEAN] ==
  IF n = <<>> THEN FZero ELSE FRound[sgn, n, e, sticky]

\* float(n) for a Python int n
FromInt[n \in Int] ==
  FMake[IF n < 0 THEN 1 ELSE 0, BFromInt[IF n < 0 THEN -n ELSE n], 0, FALSE]

FNeg[x \in Float] == IF x.man = <<>> THEN x ELSE [x EXCEPT !.sgn = 1 - @]

\* the sum of xs * a * 2^e and ys * b * 2^e
FAddMag[xs \in {0, 1}, a \in Limbs, ys \in {0, 1}, b \in Limbs, e \in Int] ==
  IF xs = ys THEN FMake[xs, BAdd[a, b], e, FALSE]
  ELSE IF BCmp[a, b] = 0 THEN FZero
  ELSE IF BCmp[a, b] > 0 THEN FMake[xs, BSub[a, b], e, FALSE]
  ELSE FMake[ys, BSub[b, a], e, FALSE]

FAddAt[x \in Float, y \in Float, e \in Int] ==
  FAddMag[x.sgn, BShl[x.man, x.exp - e], y.sgn, BShl[y.man, y.exp - e], e]

FAdd[x \in Float, y \in Float] ==
  IF x.man = <<>> THEN y
  ELSE IF y.man = <<>> THEN x
  ELSE FAddAt[x, y, IF x.exp < y.exp THEN x.exp ELSE y.exp]

FSub[x \in Float, y \in Float] == FAdd[x, FNeg[y]]

FMul[x \in Float, y \in Float] ==
  IF x.man = <<>> \/ y.man = <<>> THEN FZero
  ELSE FMake[(x.sgn + y.sgn) % 2, BMul[x.man, y.man], x.exp + y.exp, FALSE]

FDivOut[sgn \in {0, 1}, qr \in Limbs \X Limbs, e \in Int] ==
  FMake[sgn, qr[1], e, qr[2] # <<>>]

\* x / y for y # 0: the quotient of the significands is taken to 56 bits
\* or more, the remainder is the sticky bit
FDiv[x \in Float, y \in Float] ==
  IF x.man = <<>> THEN FZero
  ELSE FDivOut[(x.sgn + y.sgn) % 2, BDivMod[BShl[x.man, 56], y.man],
               x.exp - y.exp - 56]

\* for x and y of one sign and not zero: as |x| < |y|, |x| = |y|, |x| > |y|
FCmpMag[x \in Float, y \in Float] ==
  IF x.exp > y.exp THEN 1
  ELSE IF x.exp < y.exp THEN -1
  ELSE BCmp[x.man, y.man]

\* -1, 0, 1 as x < y, x = y, x > y
FCmp[x \in Float, y \in Float] ==
  IF x.man = <<>> /\ y.man = <<>> THEN 0
  ELSE IF x.man = <<>> THEN (IF y.sgn = 0 THEN -1 ELSE 1)
  ELSE IF y.man = <<>> THEN (IF x.sgn = 0 THEN 1 ELSE -1)
  ELSE IF x.sgn # y.sgn THEN (IF x.sgn = 1 THEN -1 ELSE 1)
  ELSE IF x.sgn = 0 THEN FCmpMag[x, y] ELSE -FCmpMag[x, y]

FLt(x, y) == FCmp[x, y] < 0
FLe(x, y) == FCmp[x, y] <= 0
FGt(x, y) == FCmp[x, y] > 0
FEq(x, y) == FCmp[x, y] = 0

FSigned(sgn, mag) == IF sgn = 1 THEN -mag ELSE mag

\* int(x): truncation toward zero
FTrunc[x \in Float] ==
  FSigned(x.sgn, BToInt[IF x.exp >= 0 THEN BShl[x.man, x.exp]
                        ELSE BShr[x.man, -x.exp]])

\* round(x): the nearest integer, ties to even (Python 3)
FRoundInt[x \in Float] ==
  IF x.exp >= 0 THEN FTrunc[x]
  ELSE FSigned(x.sgn, BToInt[BShr[x.man, -x.exp]]
                        + (IF FRoundUp[x.man, -x.exp, FALSE] THEN 1 ELSE 0))

FOne == FromInt[1]

\* x % 1.0: fmod(x, 1.0) is exact; a negative remainder then has 1.0 added
\* to it, which rounds
FMod1[x \in Float] ==
  IF x.man = <<>> \/ x.exp >= 0 THEN FZero
  ELSE IF BLow[x.man, -x.exp] = <<>> THEN FZero
  ELSE IF x.sgn = 0 THEN FMake[0, BLow[x.man, -x.exp], x.exp, FALSE]
  ELSE FAdd[FMake[1, BLow[x.man, -x.exp], x.exp, FALSE], FOne]

----------------------------------------------------------------------------
(* Python values.  An int is [int |-> n]; a float is a record as above.    *)
(* Arithmetic on an int and a float converts the int to float first.  A    *)
(* string is a sequence of one-character strings.  A call that raises      *)
(* returns <<name of the exception>>.                                      *)

PyInt(n) == [int |-> n]
IsInt(v) == "int" \in DOMAIN v
ToF(v) == IF IsInt(v) THEN FromInt[v.int] ELSE v

Raise(e) == <<e>>
IsError(v) == Len(v) = 1 /\ v[1] \in {"ValueError", "ZeroDivisionError"}

\* float literals of the source
F0 == FZero
F1 == FOne
F2 == FromInt[2]
F4 == FromInt[4]
F6 == FromInt[6]
F255 == FromInt[255]
FHalf == FDiv[FromInt[1], FromInt[2]]
F3p6 == FDiv[FromInt[36], FromInt[10]]

ONE_THIRD == FDiv[F1, FromInt[3]]
ONE_SIXTH == FDiv[F1, F6]
TWO_THIRD == FDiv[F2, FromInt[3]]

\* int(channel)
int(v) == IF IsInt(v) THEN v.int ELSE FTrunc[v]

PyAbs(n) == IF n < 0 THEN -n ELSE n

HexDigits == <<"0", "1", "2", "3", "4", "5", "6", "7",
               "8", "9", "a", "b", "c", "d", "e", "f">>
UpperDigits == <<"0", "1", "2", "3", "4", "5", "6", "7",
                 "8", "9", "A", "B", "C", "D", "E", "F">>

IsHexDigit(c) == \E i \in 1..16 : HexDigits[i] = c \/ UpperDigits[i] = c
DigitValue(c) == (CHOOSE i \in 1..16 : HexDigits[i] = c \/ UpperDigits[i] = c) - 1

\* str.strip('#'): every leading and every trailing '#' goes
RECURSIVE LStrip(_, _)
LStrip(s, c) == IF s # <<>> /\ s[1] = c THEN LStrip(Tail(s), c) ELSE s

RECURSIVE RStrip(_, _)
RStrip(s, c) ==
  IF s # <<>> /\ s[Len(s)] = c THEN RStrip(SubSeq(s, 1, Len(s) - 1), c) ELSE s

Strip(s, c) == RStrip(LStrip(s, c), c)

\* s[a:b] for 0 <= a <= b
Slice(s, a, b) == SubSeq(s, a + 1, IF b < Len(s) THEN b ELSE Len(s))

RECURSIVE DigitsValue(_, _)
DigitsValue(s, acc) ==
  IF s = <<>> THEN acc ELSE DigitsValue(Tail(s), 16 * acc + DigitValue(s[1]))

\* int(s, 16) for a string s of at most two characters: blanks around the
\* number are dropped, one sign may lead, and what is left must be one or
\* two hex digits (a 0x prefix or an underscore needs a third character).
\* Int16Digits(s) is that rest, <<>> when int raises ValueError.
Int16Signed(s) == Strip(s, " ") # <<>> /\ Strip(s, " ")[1] \in {"+", "-"}

Int16Check(digits) ==
  IF \E i \in 1..Len(digits) : ~IsHexDigit(digits[i]) THEN <<>> ELSE digits

Int16Digits(s) ==
  Int16Check(IF Int16Signed(s) THEN Tail(Strip(s, " ")) ELSE Strip(s, " "))

int16(s) ==
  IF Int16Signed(s) /\ Strip(s, " ")[1] = "-"
  THEN -DigitsValue(Int16Digits(s), 0)
  ELSE DigitsValue(Int16Digits(s), 0)

\* the generator of hex_to_rgb over item in (0, 2, 4)
hex_to_rgb_items(hex_value) ==
  IF \E item \in {0, 2, 4} : Int16Digits(Slice(hex_value, item, item + 2)) = <<>>
  THEN Raise("ValueError")
  ELSE <<PyInt(int16(Slice(hex_value, 0, 2))),
         PyInt(int16(Slice(hex_value, 2, 4))),
         PyInt(int16(Slice(hex_value, 4, 6)))>>

hex_to_rgb(color) == hex_to_rgb_items(Strip(color, "#"))

RECURSIVE HexOf(_)
HexOf(n) ==
  IF n < 16 THEN <<HexDigits[n + 1]>>
  ELSE HexOf(n \div 16) \o <<HexDigits[(n % 16) + 1]>>

\* '{:x}'.format(n): Format02x with the width left out of the format
Format02x_unpadded(n) == IF n < 0 THEN <<"-">> \o HexOf(-n) ELSE HexOf(n)

\* '{:02x}'.format(n): lower-case hex, the sign first, zeros up to width 2
Format02x(n) ==
  IF n < 0 THEN <<"-">> \o HexOf(-n)
  ELSE IF n < 16 THEN <<"0">> \o HexOf(n)
  ELSE HexOf(n)

rgb_to_hex(rgb) ==
  <<"#">> \o Format02x(int(rgb[1])) \o Format02x(int(rgb[2]))
          \o Format02x(int(rgb[3]))

FMax(a, b) == IF FGt(b, a) THEN b ELSE a
FMin(a, b) == IF FLt(b, a) THEN b ELSE a

\* rgb_to_hsl, stage by stage; each stage takes the locals set so far

\* rgb_to_hsl's return with h = h / 6.0, the % 1.0 left out
rgb_to_hsl_return_unwrapped(h, s, l) == <<FDiv[h, F6], s, l>>

\* h = (h / 6.0) % 1.0; return (h, s, l)
rgb_to_hsl_return(h, s, l) == <<FMod1[FDiv[h, F6]], s, l>>

\* rc, gc, bc are set; the if on the channel that is the greatest
rgb_to_hsl_hue(r, g, max_color, s, l, rc, gc, bc) ==
  IF FEq(r, max_color) THEN rgb_to_hsl_return(FSub[bc, gc], s, l)
  ELSE IF FEq(g, max_color) THEN rgb_to_hsl_return(FSub[FAdd[F2, rc], bc], s, l)
  ELSE rgb_to_hsl_return(FSub[FAdd[F4, gc], rc], s, l)

\* s = range_color / den, den chosen by l <= 0.5; a zero den raises
rgb_to_hsl_sat(r, g, b, max_color, range_color, l, den) ==
  IF FEq(den, F0) THEN Raise("ZeroDivisionError")
  ELSE rgb_to_hsl_hue(r, g, max_color, FDiv[range_color, den], l,
                      FDiv[FSub[max_color, r], range_color],
                      FDiv[FSub[max_color, g], range_color],
                      FDiv[FSub[max_color, b], range_color])

\* l is set; the achromatic return and the choice of den
rgb_to_hsl_light(r, g, b, max_color, min_color, sum_color, l) ==
  IF FEq(min_color, max_color) THEN <<F0, F0, l>>
  ELSE rgb_to_hsl_sat(r, g, b, max_color, FSub[max_color, min_color], l,
                      IF FLe(l, FHalf) THEN sum_color ELSE FSub[F2, sum_color])

rgb_to_hsl_sum(r, g, b, max_color, min_color, sum_color) ==
  rgb_to_hsl_light(r, g, b, max_color, min_color, sum_color, FDiv[sum_color, F2])

rgb_to_hsl_range(r, g, b, max_color, min_color) ==
  rgb_to_hsl_sum(r, g, b, max_color, min_color, FAdd[max_color, min_color])

rgb_to_hsl_norm(r, g, b) ==
  rgb_to_hsl_range(r, g, b, FMax(FMax(r, g), b), FMin(FMin(r, g), b))

rgb_to_hsl(rgb) ==
  rgb_to_hsl_norm(FDiv[ToF(rgb[1]), F255], FDiv[ToF(rgb[2]), F255],
                  FDiv[ToF(rgb[3]), F255])

\* _v after hue = hue % 1.0
_v_mod(m1, m2, hue) ==
  IF FLt(hue, ONE_SIXTH)
  THEN FAdd[m1, FMul[FMul[FSub[m2, m1], hue], F6]]
  ELSE IF FLt(hue, FHalf) THEN m2
  ELSE IF FLt(hue, TWO_THIRD)
  THEN FAdd[m1, FMul[FMul[FSub[m2, m1], FSub[TWO_THIRD, hue]], F6]]
  ELSE m1

_v(m1, m2, hue) == _v_mod(m1, m2, FMod1[hue])

\* the return of hsl_to_rgb once m1 and m2 are set
hsl_to_rgb_return(h, m1, m2) ==
  <<PyInt(FRoundInt[FMul[_v(m1, m2, FAdd[h, ONE_THIRD]), F255]]),
    PyInt(FRoundInt[FMul[_v(m1, m2, h), F255]]),
    PyInt(FRoundInt[FMul[_v(m1, m2, FSub[h, ONE_THIRD]), F255]])>>

hsl_to_rgb_m2(h, l, m2) == hsl_to_rgb_return(h, FSub[FMul[F2, l], m2], m2)

hsl_to_rgb_chromatic(h, s, l) ==
  hsl_to_rgb_m2(h, l, IF FLe(l, FHalf) THEN FMul[l, FAdd[F1, s]]
                      ELSE FSub[FAdd[l, s], FMul[l, s]])

hsl_to_rgb(hsl) ==
  IF FEq(ToF(hsl[2]), F0) THEN <<hsl[3], hsl[3], hsl[3]>>
  ELSE hsl_to_rgb_chromatic(ToF(hsl[1]), ToF(hsl[2]), ToF(hsl[3]))

\* a call that raised hands the exception on
hex_to_hsl_rgb(rgb) == IF IsError(rgb) THEN rgb ELSE rgb_to_hsl(rgb)

hex_to_hsl(color) == hex_to_hsl_rgb(hex_to_rgb(color))

hsl_to_hex(hsl) == rgb_to_hex(hsl_to_rgb(hsl))

\* _check_range with one of its two tests left out
_check_range_lower_only(channel) ==
  IF FLt(ToF(channel), F0) THEN PyInt(0) ELSE channel

_check_range_upper_only(channel) ==
  IF FGt(ToF(channel), F1) THEN PyInt(1) ELSE channel

_check_range(channel) ==
  IF FLt(ToF(channel), F0) THEN PyInt(0)
  ELSE IF FGt(ToF(channel), F1) THEN PyInt(1)
  ELSE channel

\* abs(shift) / 100 and shift / 100: true division of two ints
Percent(n) == FDiv[FromInt[n], FromInt[100]]

\* hue with the new hue reduced modulo 1 where the source clamps it
hue_hsl_wrapping(hsl, shift) ==
  IF IsError(hsl) THEN hsl
  ELSE IF shift < 0
  THEN hsl_to_hex(<<FMod1[FDiv[FSub[FMul[hsl[1], F3p6],
                                   Percent(PyAbs(shift))], F3p6]],
                    hsl[2], hsl[3]>>)
  ELSE hsl_to_hex(<<FMod1[FDiv[FAdd[FMul[hsl[1], F3p6],
                                   Percent(shift)], F3p6]],
                    hsl[2], hsl[3]>>)

hue_hsl(hsl, shift) ==
  IF IsError(hsl) THEN hsl
  ELSE IF shift < 0
  THEN hsl_to_hex(<<_check_range(FDiv[FSub[FMul[hsl[1], F3p6],
                                          Percent(PyAbs(shift))], F3p6]),
                    hsl[2], hsl[3]>>)
  ELSE hsl_to_hex(<<_check_range(FDiv[FAdd[FMul[hsl[1], F3p6],
                                          Percent(shift)], F3p6]),
                    hsl[2], hsl[3]>>)

hue(color, shift) == hue_hsl(hex_to_hsl(color), shift)

\* saturation with the test on the sign of shift left out
saturation_hsl_unsigned(hsl, shift) ==
  IF IsError(hsl) THEN hsl
  ELSE hsl_to_hex(<<hsl[1], _check_range(FAdd[hsl[2], Percent(PyAbs(shift))]),
                    hsl[3]>>)

saturation_hsl(hsl, shift) ==
  IF IsError(hsl) THEN hsl
  ELSE IF shift < 0
  THEN hsl_to_hex(<<hsl[1], _check_range(FSub[hsl[2], Percent(PyAbs(shift))]),
                    hsl[3]>>)
  ELSE hsl_to_hex(<<hsl[1], _check_range(FAdd[hsl[2], Percent(shift)]),
                    hsl[3]>>)

saturation(color, shift) == saturation_hsl(hex_to_hsl(color), shift)

lightness_hsl(hsl, shift) ==
  IF IsError(hsl) THEN hsl
  ELSE IF shift < 0
  THEN hsl_to_hex(<<hsl[1], hsl[2],
                    _check_range(FSub[hsl[3], Percent(PyAbs(shift))])>>)
  ELSE hsl_to_hex(<<hsl[1], hsl[2],
                    _check_range(FAdd[hsl[3], Percent(shift)])>>)

lightness(color, shift) == lightness_hsl(hex_to_hsl(color), shift)

----------------------------------------------------------------------------
(* The state: one Color object and one caller that feeds each result into  *)
(* the next call.                                                          *)

VARIABLES
  scheme,   \* Color.scheme, the mapping given to the constructor
  input,    \* the value the caller starts from: [kind, val]
  calls     \* the calls made so far, oldest first: [op, arg, shift, ret]

vars == <<scheme, input, calls>>

\* the longest chain of calls the caller makes
MaxCalls == 2

Hex(a, b, c, d, e, f) == <<"#", a, b, c, d, e, f>>

\* the scheme of the constructor's docstring (its two descriptive entries,
\* "scheme" and "author", are not colours and are left out)
catppuccin_mocha ==
  [base00 |-> Hex("1", "1", "1", "1", "1", "b"),
   base01 |-> Hex("1", "8", "1", "8", "2", "5"),
   base02 |-> Hex("3", "1", "3", "2", "4", "4"),
   base03 |-> Hex("4", "5", "4", "7", "5", "a"),
   base04 |-> Hex("5", "8", "5", "b", "7", "0"),
   base05 |-> Hex("c", "d", "d", "6", "f", "4"),
   base06 |-> Hex("f", "5", "e", "0", "d", "c"),
   base07 |-> Hex("b", "4", "b", "e", "f", "e"),
   base08 |-> Hex("f", "3", "8", "b", "a", "8"),
   base09 |-> Hex("f", "a", "b", "3", "8", "7"),
   base0A |-> Hex("f", "9", "e", "2", "a", "f"),
   base0B |-> Hex("a", "6", "e", "3", "a", "1"),
   base0C |-> Hex("9", "4", "e", "2", "d", "5"),
   base0D |-> Hex("8", "9", "b", "4", "f", "a"),
   base0E |-> Hex("c", "b", "a", "6", "f", "7"),
   base0F |-> Hex("f", "2", "c", "d", "c", "d")]

SchemeColors == {catppuccin_mocha[k] : k \in DOMAIN catppuccin_mocha}

\* further strings a caller passes: greys, the extremes, other spellings of
\* a colour, and strings that are not 6 hex digits
Greys ==
  {Hex("0", "0", "0", "0", "0", "0"), Hex("0", "1", "0", "1", "0", "1"),
   Hex("8", "0", "8", "0", "8", "0"), Hex("f", "f", "f", "f", "f", "f")}

Spellings ==
  {<<"b", "4", "b", "e", "f", "e">>, <<"B", "4", "B", "E", "F", "E">>,
   Hex("B", "4", "b", "E", "f", "e"), Hex("0", "9", "0", "9", "f", "f"),
   Hex("0", "5", "f", "f", "0", "0")}

Malformed ==
  {<<>>, <<"#">>, <<"b", "4", "b", "e">>, <<"b", "4", "b", "e", "f">>,
   <<"#", "b", "4", "b", "e", "f">>,
   <<"b", "4", "b", "e", "f", "e", "0", "0">>,
   <<"#", "b", "4", "b", "e", "f", "e", "0">>,
   <<"b", "4", "b", "e", "f", "e", "#">>,
   <<"#", "#", "b", "4", "b", "e", "f", "e">>,
   <<"b", "4", "#", "e", "f", "e">>, <<"b", "4", "b", "e", "g", "f">>,
   <<"+", "4", "b", "e", "f", "e">>, <<" ", "4", "b", "e", "f", "e">>,
   <<"-", "4", "b", "e", "f", "e">>, <<"b", "4", "b", "e", "f", " ">>,
   <<"-", "4", "0", "4", "0", "0">>}

\* HSL triples a caller passes to hsl_to_rgb and hsl_to_hex
HslInputs ==
  {<<h, s, l>> : h \in {F0, ONE_THIRD, FHalf},
                 s \in {F0, FHalf, F1},
                 l \in {F0, ONE_THIRD, FHalf, F1}}

ConvertInputs ==
  {[kind |-> "hex", val |-> c] :
      c \in SchemeColors \cup Greys \cup Spellings \cup Malformed}
  \cup {[kind |-> "hsl", val |-> t] : t \in HslInputs}

\* the colours the shifts start from and the shifts applied
ShiftInputs ==
  {[kind |-> "hex", val |-> c] :
      c \in {catppuccin_mocha.base06, catppuccin_mocha.base07,
             catppuccin_mocha.base0B, Hex("8", "0", "8", "0", "8", "0")}}

Shifts == {-1000, -20, -5, 20, 1000}

Last == calls[Len(calls)]
Prev == calls[Len(calls) - 1]

\* what the caller holds: the last result, and what it is
Val == IF calls = <<>> THEN input.val ELSE Last.ret

Kind ==
  IF calls = <<>> THEN input.kind
  ELSE IF IsError(Last.ret) THEN "raised"
  ELSE IF Last.op \in {"hex_to_rgb", "hsl_to_rgb"} THEN "rgb"
  ELSE IF Last.op \in {"hex_to_hsl", "rgb_to_hsl"} THEN "hsl"
  ELSE "hex"

Call(op, shift, ret) ==
  /\ Len(calls) < MaxCalls
  /\ calls' = Append(calls, [op |-> op, arg |-> Val, shift |-> shift, ret |-> ret])
  /\ UNCHANGED <<scheme, input>>

HexToRgb == Kind = "hex" /\ Call("hex_to_rgb", 0, hex_to_rgb(Val))
RgbToHex == Kind = "rgb" /\ Call("rgb_to_hex", 0, rgb_to_hex(Val))
HexToHsl == Kind = "hex" /\ Call("hex_to_hsl", 0, hex_to_hsl(Val))
HslToHex == Kind = "hsl" /\ Call("hsl_to_hex", 0, hsl_to_hex(Val))
RgbToHsl == Kind = "rgb" /\ Call("rgb_to_hsl", 0, rgb_to_hsl(Val))
HslToRgb == Kind = "hsl" /\ Call("hsl_to_rgb", 0, hsl_to_rgb(Val))

Hue(shift) == Kind = "hex" /\ Call("hue", shift, hue(Val, shift))
Saturation(shift) == Kind = "hex" /\ Call("saturation", shift, saturation(Val, shift))
Lightness(shift) == Kind = "hex" /\ Call("lightness", shift, lightness(Val, shift))

InitConvert ==
  /\ scheme = catppuccin_mocha
  /\ input \in ConvertInputs
  /\ calls = <<>>

InitShift ==
  /\ scheme = catppuccin_mocha
  /\ input \in ShiftInputs
  /\ calls = <<>>

NextConvert ==
  \/ HexToRgb
  \/ RgbToHex
  \/ HexToHsl
  \/ HslToHex
  \/ RgbToHsl
  \/ HslToRgb

NextShift ==
  \/ \E shift \in Shifts : Hue(shift)
  \/ \E shift \in Shifts : Saturation(shift)
  \/ \E shift \in Shifts : Lightness(shift)

\* the converters, chained
SpecConvert == InitConvert /\ [][NextConvert]_vars

\* the channel shifts, chained
SpecShift == InitShift /\ [][NextShift]_vars

----------------------------------------------------------------------------
(* The vocabulary of the properties: what a valid and a well-formed hex    *)
(* colour is, its channels, and its normal form.  These are written from   *)
(* the definitions of the words, not from the conversions above.           *)

LowerHex == {HexDigits[i] : i \in 1..16}
AnyHex == LowerHex \cup {UpperDigits[i] : i \in 1..16}

\* exactly 6 hex digits, optionally prefixed with '#', any letter case
SixDigits(x) == Len(x) = 6 /\ \A i \in 1..6 : x[i] \in AnyHex
ValidHex(x) == SixDigits(x) \/ (Len(x) = 7 /\ x[1] = "#" /\ SixDigits(Tail(x)))

\* '#' followed by exactly 6 lower-case hex digits
WellFormed(x) == Len(x) = 7 /\ x[1] = "#" /\ \A i \in 2..7 : x[i] \in LowerHex

\* of a valid hex colour: its 6 digits, channel i as a number, the triple,
\* and '#' followed by the digits in lower case
Digits(x) == IF Len(x) = 7 THEN Tail(x) ELSE x
Channel(x, i) ==
  16 * DigitValue(Digits(x)[2 * i - 1]) + DigitValue(Digits(x)[2 * i])
Channels(x) == <<PyInt(Channel(x, 1)), PyInt(Channel(x, 2)), PyInt(Channel(x, 3))>>
Normalised(x) ==
  <<"#">> \o [i \in 1..6 |-> HexDigits[DigitValue(Digits(x)[i]) + 1]]

\* two valid hex colours no channel of which differs by more than 1
WithinOne(a, b) ==
  /\ ValidHex(a)
  /\ ValidHex(b)
  /\ \A i \in 1..3 : Channel(a, i) - Channel(b, i) \in -1..1

\* a triple of ints in 0..255
InByteRange(rgb) == \A i \in 1..3 : IsInt(rgb[i]) /\ rgb[i].int \in 0..255

\* the grey whose three channels are n
Grey(n) == <<"#">> \o Format02x(n) \o Format02x(n) \o Format02x(n)

\* clamp(v): 0 for v < 0, 1 for v > 1 and v otherwise
Clamp(v) == IF FLt(v, F0) THEN PyInt(0) ELSE IF FGt(v, F1) THEN PyInt(1) ELSE v

\* hsl_to_hex(clamp(h + shift/360), s, l) for (h, s, l) = hsl
HueBy360(hsl, shift) ==
  hsl_to_hex(<<Clamp(FAdd[hsl[1], FDiv[FromInt[shift], FromInt[360]]]),
               hsl[2], hsl[3]>>)

----------------------------------------------------------------------------
(* Properties of the converters, under SpecConvert.                        *)

\* C1, as stated: for every valid hex colour x, grey ones included,
\* hsl_to_hex(hex_to_hsl(x)) is a hex colour each channel of which differs
\* from that of x by at most 1.  The grey #808080 comes back as #000000.
C1_HslRoundTripWithinOne ==
  (/\ Len(calls) >= 2
   /\ Prev.op = "hex_to_hsl"
   /\ Last.op = "hsl_to_hex"
   /\ ValidHex(Prev.arg))
  => WithinOne(Last.ret, Prev.arg)

\* C2, as stated: hex_to_rgb, and hex_to_hsl composed from it, raise the
\* format error (ValueError) on every string that is not exactly 6 hex
\* digits once the leading '#' is gone, and never return a triple for it.
\* The 5 digits b4bef give (180, 190, 15).
C2_MalformedRaises ==
  (/\ calls # <<>>
   /\ Last.op \in {"hex_to_rgb", "hex_to_hsl"}
   /\ ~ValidHex(Last.arg))
  => Last.ret = Raise("ValueError")

\* C3: for every valid hex colour x, hex_to_rgb(x) is the triple of the
\* three 2-digit groups of x read base 16, each in 0..255, and
\* rgb_to_hex(hex_to_rgb(x)) is '#' followed by the digits of x in lower
\* case.
C3_RgbRoundTrip ==
  /\ (/\ calls # <<>>
      /\ Last.op = "hex_to_rgb"
      /\ ValidHex(Last.arg))
     => (Last.ret = Channels(Last.arg) /\ InByteRange(Last.ret))
  /\ (/\ Len(calls) >= 2
      /\ Prev.op = "hex_to_rgb"
      /\ Last.op = "rgb_to_hex"
      /\ ValidHex(Prev.arg))
     => Last.ret = Normalised(Prev.arg)

\* the upper-case spelling B4BEFE went to (180, 190, 254) and came back as
\* #b4befe
C3_Witness ==
  /\ Len(calls) = 2
  /\ Prev.op = "hex_to_rgb"
  /\ Last.op = "rgb_to_hex"
  /\ Prev.arg = <<"B", "4", "B", "E", "F", "E">>
  /\ Prev.ret = <<PyInt(180), PyInt(190), PyInt(254)>>
  /\ Last.ret = catppuccin_mocha.base07

\* C7: for every triple of ints in 0..255, rgb_to_hsl returns exactly
\* (0.0, 0.0, r/255) when the three channels are equal, and otherwise a
\* saturation greater than 0 and a hue h with 0 <= h < 1.
C7_Achromatic ==
  (/\ calls # <<>>
   /\ Last.op = "rgb_to_hsl"
   /\ InByteRange(Last.arg))
  => IF Last.arg[1] = Last.arg[2] /\ Last.arg[2] = Last.arg[3]
     THEN Last.ret = <<F0, F0, FDiv[FromInt[Last.arg[1].int], F255]>>
     ELSE /\ ~IsError(Last.ret)
          /\ FGt(Last.ret[2], F0)
          /\ FLe(F0, Last.ret[1])
          /\ FLt(Last.ret[1], F1)

\* rgb_to_hsl(128, 128, 128) returned (0.0, 0.0, 128/255)
C7_Witness ==
  /\ Len(calls) = 2
  /\ Last.op = "rgb_to_hsl"
  /\ Last.arg = <<PyInt(128), PyInt(128), PyInt(128)>>
  /\ Last.ret = <<F0, F0, FDiv[FromInt[128], F255]>>

\* C8, as stated: for s = 0 and l in [0, 1], hsl_to_rgb returns three
\* channels each equal to round(l * 255), and hsl_to_hex the grey of those
\* channels.  hsl_to_rgb(h, 0, 1/3) returns (1/3, 1/3, 1/3), not 85 thrice.
C8_AchromaticScaled ==
  (/\ calls # <<>>
   /\ Last.op \in {"hsl_to_rgb", "hsl_to_hex"}
   /\ FEq(ToF(Last.arg[2]), F0)
   /\ FLe(F0, ToF(Last.arg[3]))
   /\ FLe(ToF(Last.arg[3]), F1))
  => IF Last.op = "hsl_to_rgb"
     THEN \A i \in 1..3 :
            FEq(ToF(Last.ret[i]),
                FromInt[FRoundInt[FMul[ToF(Last.arg[3]), F255]]])
     ELSE Last.ret = Grey(FRoundInt[FMul[ToF(Last.arg[3]), F255]])

----------------------------------------------------------------------------
(* Properties of the channel shifts, under SpecShift.                      *)

\* C4: no shift raises; saturation(c, k) = saturation(c, 100) for k >= 100
\* and lightness(c, k) = lightness(c, -100) for k <= -100.
C4_OverShiftClamps ==
  calls # <<>> =>
    /\ ~IsError(Last.ret)
    /\ (Last.op = "saturation" /\ Last.shift >= 100)
       => Last.ret = saturation(Last.arg, 100)
    /\ (Last.op = "lightness" /\ Last.shift <= -100)
       => Last.ret = lightness(Last.arg, -100)

\* saturation(#b4befe, 1000) returned what saturation(#b4befe, 100) returns
C4_Witness ==
  /\ calls # <<>>
  /\ Last.op = "saturation"
  /\ Last.shift = 1000
  /\ Last.arg = catppuccin_mocha.base07
  /\ Last.ret = saturation(catppuccin_mocha.base07, 100)
  /\ WellFormed(Last.ret)

\* saturation(c, k) was followed by saturation(result, -k), with k > 0 and
\* s + k/100 <= 1 for the saturation s of c
C5_Case ==
  /\ Len(calls) >= 2
  /\ Prev.op = "saturation"
  /\ Last.op = "saturation"
  /\ Prev.shift > 0
  /\ Last.shift = -Prev.shift
  /\ ValidHex(Prev.arg)
  /\ FLe(FAdd[hex_to_hsl(Prev.arg)[2], Percent(Prev.shift)], F1)

C6_DocstringExamples ==
  (/\ calls # <<>>
   /\ Last.arg = catppuccin_mocha.base07
   /\ Last.shift = 20)
  => /\ Last.op = "hue" => Last.ret = Hex("b", "6", "b", "4", "f", "e")
     /\ Last.op = "saturation" => Last.ret = Hex("b", "3", "b", "d", "f", "f")
     /\ Last.op = "lightness" => Last.ret = Hex("e", "6", "e", "a", "f", "f")

\* C9, as stated: hue(c, shift) = hsl_to_hex(clamp(h + shift/360), s, l)
\* for (h, s, l) = hex_to_hsl(c).  For #a6e3a1 and shift -5 the two differ
\* in one channel by 1.
C9_HueExactly ==
  (calls # <<>> /\ Last.op = "hue")
  => Last.ret = HueBy360(hex_to_hsl(Last.arg), Last.shift)

\* C9, amended: hue(c, shift) and hsl_to_hex(clamp(h + shift/360), s, l)
\* are hex colours no channel of which differs by more than 1.
C9_HueWithinOne ==
  (calls # <<>> /\ Last.op = "hue")
  => WithinOne(Last.ret, HueBy360(hex_to_hsl(Last.arg), Last.shift))

\* hue(#a6e3a1, -5) differs from the closed form, by 1
C9_Witness ==
  /\ calls # <<>>
  /\ Last.op = "hue"
  /\ Last.arg = catppuccin_mocha.base0B
  /\ Last.shift = -5
  /\ Last.ret # HueBy360(hex_to_hsl(Last.arg), Last.shift)
  /\ WithinOne(Last.ret, HueBy360(hex_to_hsl(Last.arg), Last.shift))

\* C10: every result of a chain of hue, saturation and lightness calls that
\* starts from a valid hex colour is '#' followed by exactly 6 lower-case
\* hex digits, and Color.scheme stays what the constructor stored.
C10_ChainWellFormed ==
  /\ scheme = catppuccin_mocha
  /\ \A i \in 1..Len(calls) : WellFormed(calls[i].ret)

\* lightness(c, 1000) then hue(result, -1000): both results well formed
C10_Witness ==
  /\ Len(calls) = 2
  /\ Prev.op = "lightness"
  /\ Prev.shift = 1000
  /\ Last.op = "hue"
  /\ Last.shift = -1000
  /\ WellFormed(Prev.ret)
  /\ WellFormed(Last.ret)
  /\ scheme = catppuccin_mocha
====
